---- MODULE Spec2Model ----
(***************************************************************************)
(* Model of the deferred-query layer used by the Outlook Message resource  *)
(* (office365/outlook/mail/messages/message.py) and by the SharePoint      *)
(* GroupSiteManager (office365/sharepoint/portal/GroupSiteManager.py).     *)
(*                                                                         *)
(* Resource methods build queries and register request/response handlers   *)
(* on their client context; execute_query flushes the pending queue, one   *)
(* HTTP exchange per query.                                                *)
(***************************************************************************)
EXTENDS Integers, Sequences, FiniteSets, TLC

\* ------------------------------------------------------------------ bounds
\* total number of resource-method calls in one behaviour
MaxCalls == 2

\* ------------------------------------------------------------------ inputs
\* the two client contexts: Graph (Message) and SharePoint (GroupSiteManager)
Contexts == {"graph", "sp"}

None == "None"

Comments == {None, "hi"}

ForwardComments == {"hi"}

Folders == {"archive"}

RecipientLists == {<<"a@x", "b@x">>}

SiteUrls == {"https://t/sites/a"}

GroupIds == {"g1"}

\* MIME contents the endpoint may return for a $value request
Contents == {"mime1", "mime2"}

\* HTTP status codes of a response
Statuses == {200, 500}

\* the id the endpoint knows the message by
MessageId == "m1"

\* attachment names, contents (strings, as code points) and content types
Names == {"a.txt"}

ContentStrings == {<<>>, <<104, 105>>, <<233>>, <<8364, 33>>}

ContentTypes == {None, "text/plain"}

\* sizes in bytes of the files on disk
FileSizes == {0, 2, 3000000, 3000001, 150000000, 200000000}

\* a file on disk: its path, and its content, the byte 'fill' repeated
Files == {[path |-> <<"tmp", "a.bin">>, fill |-> 77, size |-> n] : n \in FileSizes}

\* property maps given to update
PropertyMaps == {[Title |-> "New web site"],
                 [Title |-> "Workspace", Description |-> "d"],
                 [Description |-> "x"]}

\* ------------------------------------------------------------------- state
VARIABLES
    pending,        \* context -> queue of queries added and not yet dispatched
    beforeExecute,  \* context -> handlers notified with each request built
    afterExecute,   \* context -> handlers notified with each response received
    executing,      \* "idle", or the context whose execute_query is running
    http,           \* log of the exchanges made with the endpoint
    results,        \* query id -> value of the query's ClientResult
    fileWrites,     \* calls made to file_object.write, with their argument
    downloads,      \* ids of the $value queries created by Message.download
    raised,         \* exception that ended the last execute_query, or None
    nextId,         \* id of the next query or attachment object constructed
    lastCall,       \* the last resource method called, with its arguments
    properties,     \* the message's properties dict (keys that are set)
    return_type,    \* the FileAttachment created by the last attachment call
    uploads,        \* resumable uploads started on the attachments collection
    webProperties,  \* the Web client object's properties dict
    server          \* the properties of the web as stored by the endpoint

\* state of the message's attachments and of the web resource
resourceVars == <<properties, return_type, uploads, webProperties, server>>

vars == <<pending, beforeExecute, afterExecute, executing, http, results,
          fileWrites, downloads, raised, nextId, lastCall, properties,
          return_type, uploads, webProperties, server>>

\* ----------------------------------------------------------------- helpers
NoPayload == [none |-> TRUE]

RecipientFromEmail(v) == [emailAddress |-> [address |-> v]]

\* [Recipient.from_email(v) for v in to_recipients]
MapRecipients(s) == [i \in 1..Len(s) |-> RecipientFromEmail(s[i])]

\* ServiceOperationQuery(binding_type, method_name, method_params,
\*                       parameter_type, parameter_name, return_type)
ServiceOperationQuery(binding, name, payload, returns) ==
    [id |-> nextId, kind |-> "ServiceOperationQuery", binding |-> binding,
     name |-> name, parameterType |-> payload, return_type |-> returns]

\* context.add_query(qry): the query joins the context's pending queue
add_query(c, qry) == [pending EXCEPT ![c] = Append(@, qry)]

CanCall == executing = "idle" /\ nextId <= MaxCalls

\* what a call of a resource method does besides building its query
Called(op, args) ==
    /\ nextId' = nextId + 1
    /\ lastCall' = [op |-> op, args |-> args]

\* ------------------------------------------------------- Message operations
\* Message.send sending its request at once instead of queueing the query
Message_send_immediate ==
    /\ CanCall
    /\ http' = Append(http, [qid |-> nextId, kind |-> "ServiceOperationQuery",
                             name |-> "send", method |-> "POST",
                             url |-> <<"Message", "send">>, payload |-> NoPayload,
                             status |-> 200, content |-> None])
    /\ Called("send", <<>>)
    /\ UNCHANGED <<pending, beforeExecute, afterExecute, executing, results,
                   fileWrites, downloads, raised, resourceVars>>

Message_send ==
    /\ CanCall
    /\ pending' = add_query("graph",
                     ServiceOperationQuery("Message", "send", NoPayload, None))
    /\ Called("send", <<>>)
    /\ UNCHANGED <<beforeExecute, afterExecute, executing, http, results,
                   fileWrites, downloads, raised, resourceVars>>

Message_reply ==
    \E comment \in Comments :
        /\ CanCall
        /\ pending' = add_query("graph",
                         ServiceOperationQuery("Message", "reply",
                             [message |-> "Message", comment |-> comment], None))
        /\ Called("reply", <<comment>>)
        /\ UNCHANGED <<beforeExecute, afterExecute, executing, http, results,
                       fileWrites, downloads, raised, resourceVars>>

\* Message.reply_all queueing the 'reply' operation
Message_reply_all_as_reply ==
    /\ CanCall
    /\ pending' = add_query("graph",
                     ServiceOperationQuery("Message", "reply", NoPayload, None))
    /\ Called("reply_all", <<>>)
    /\ UNCHANGED <<beforeExecute, afterExecute, executing, http, results,
                   fileWrites, downloads, raised, resourceVars>>

Message_reply_all ==
    /\ CanCall
    /\ pending' = add_query("graph",
                     ServiceOperationQuery("Message", "replyAll", NoPayload, None))
    /\ Called("reply_all", <<>>)
    /\ UNCHANGED <<beforeExecute, afterExecute, executing, http, results,
                   fileWrites, downloads, raised, resourceVars>>

Message_create_reply_all ==
    /\ CanCall
    /\ pending' = add_query("graph",
                     ServiceOperationQuery("Message", "createReplyAll",
                                           NoPayload, None))
    /\ Called("create_reply_all", <<>>)
    /\ UNCHANGED <<beforeExecute, afterExecute, executing, http, results,
                   fileWrites, downloads, raised, resourceVars>>

Message_move ==
    \E destination_id \in Folders :
        /\ CanCall
        /\ pending' = add_query("graph",
                         ServiceOperationQuery("Message", "move",
                             [DestinationId |-> destination_id], None))
        /\ Called("move", <<destination_id>>)
        /\ UNCHANGED <<beforeExecute, afterExecute, executing, http, results,
                       fileWrites, downloads, raised, resourceVars>>

Message_forward ==
    \E to_recipients \in RecipientLists, comment \in ForwardComments :
        /\ CanCall
        /\ pending' = add_query("graph",
                         ServiceOperationQuery("Message", "forward",
                             [toRecipients |-> MapRecipients(to_recipients),
                              comment |-> comment], None))
        /\ Called("forward", <<to_recipients, comment>>)
        /\ UNCHANGED <<beforeExecute, afterExecute, executing, http, results,
                       fileWrites, downloads, raised, resourceVars>>

\* the state change of get_content: a GET handler is registered on the
\* context, then the $value query is added
get_content ==
    /\ beforeExecute' = [beforeExecute EXCEPT
                            !["graph"] = Append(@, [kind |-> "_construct_query"])]
    /\ pending' = add_query("graph",
                     ServiceOperationQuery("Message", "$value", NoPayload, "ClientResult"))

Message_get_content ==
    /\ CanCall
    /\ get_content
    /\ Called("get_content", <<>>)
    /\ UNCHANGED <<afterExecute, executing, http, results, fileWrites,
                   downloads, raised, resourceVars>>

Message_download ==
    /\ CanCall
    /\ get_content
    /\ afterExecute' = [afterExecute EXCEPT
                           !["graph"] = Append(@, [kind |-> "_content_downloaded",
                                                   result |-> nextId])]
    /\ downloads' = downloads \cup {nextId}
    /\ Called("download", <<>>)
    /\ UNCHANGED <<executing, http, results, fileWrites, raised, resourceVars>>

\* ---------------------------------------------- GroupSiteManager operations
GroupSiteManager_create_group_ex ==
    \E display_name \in {"Team"}, alias \in {"team"}, is_public \in {TRUE} :
        /\ CanCall
        /\ pending' = add_query("sp",
                         ServiceOperationQuery("GroupSiteManager", "CreateGroupEx",
                             [displayName |-> display_name, alias |-> alias,
                              isPublic |-> is_public, optionalParams |-> None],
                             "GroupSiteInfo"))
        /\ Called("create_group_ex", <<display_name, alias, is_public, None>>)
        /\ UNCHANGED <<beforeExecute, afterExecute, executing, http, results,
                       fileWrites, downloads, raised, resourceVars>>

GroupSiteManager_delete ==
    \E site_url \in SiteUrls :
        /\ CanCall
        /\ pending' = add_query("sp",
                         ServiceOperationQuery("GroupSiteManager", "Delete",
                             [siteUrl |-> site_url], None))
        /\ Called("delete", <<site_url>>)
        /\ UNCHANGED <<beforeExecute, afterExecute, executing, http, results,
                       fileWrites, downloads, raised, resourceVars>>

GroupSiteManager_get_status ==
    \E group_id \in GroupIds :
        /\ CanCall
        /\ pending' = add_query("sp",
                         ServiceOperationQuery("GroupSiteManager", "GetSiteStatus",
                             [groupId |-> group_id], "GroupSiteInfo"))
        /\ beforeExecute' = [beforeExecute EXCEPT
                                !["sp"] = Append(@, [kind |-> "_construct_status_request"])]
        /\ Called("get_status", <<group_id>>)
        /\ UNCHANGED <<afterExecute, executing, http, results, fileWrites,
                       downloads, raised, resourceVars>>

\* -------------------------------------------------------------- encodings
\* str.encode("utf-8") of one character
Utf8Char(cp) ==
    IF cp < 128 THEN <<cp>>
    ELSE IF cp < 2048 THEN <<192 + (cp \div 64), 128 + (cp % 64)>>
    ELSE <<224 + (cp \div 4096), 128 + ((cp \div 64) % 64), 128 + (cp % 64)>>

RECURSIVE Utf8(_)
Utf8(s) == IF s = <<>> THEN <<>> ELSE Utf8Char(Head(s)) \o Utf8(Tail(s))

\* the character of the base64 alphabet with index i, as its ASCII code
B64Char(i) ==
    IF i < 26 THEN 65 + i
    ELSE IF i < 52 THEN 97 + (i - 26)
    ELSE IF i < 62 THEN 48 + (i - 52)
    ELSE IF i = 62 THEN 43 ELSE 47

B64Pad == 61

\* base64.b64encode(bytes).decode("utf-8")
RECURSIVE b64encode(_)
b64encode(b) ==
    IF Len(b) = 0 THEN <<>>
    ELSE IF Len(b) = 1
    THEN <<B64Char(b[1] \div 4), B64Char((b[1] % 4) * 16), B64Pad, B64Pad>>
    ELSE IF Len(b) = 2
    THEN <<B64Char(b[1] \div 4), B64Char((b[1] % 4) * 16 + (b[2] \div 16)),
           B64Char((b[2] % 16) * 4), B64Pad>>
    ELSE <<B64Char(b[1] \div 4), B64Char((b[1] % 4) * 16 + (b[2] \div 16)),
           B64Char((b[2] % 16) * 4 + (b[3] \div 64)), B64Char(b[3] % 64)>>
         \o b64encode(SubSeq(b, 4, Len(b)))

\* a string: 'unit' repeated 'reps' times, then 'tail'
Text(unit, reps, tail) == [unit |-> unit, reps |-> reps, tail |-> tail]

\* base64 of a file's content: every three bytes make one group of four
\* characters, the remaining one or two bytes make the padded tail
b64encodeFile(f) ==
    Text(b64encode(<<f.fill, f.fill, f.fill>>), f.size \div 3,
         b64encode([i \in 1..(f.size % 3) |-> f.fill]))

\* os.path.basename
basename(path) == path[Len(path)]

\* --------------------------------------------------- attachment operations
NoProperties == [k \in {} |-> None]

SetProperty(props, k, v) == (k :> v) @@ props

\* Message.attachments: the stored collection, or a new empty collection
\* when the 'attachments' property is not set
attachments ==
    IF "attachments" \in DOMAIN properties THEN properties["attachments"] ELSE <<>>

Message_add_file_attachment ==
    \E name \in Names, content \in ContentStrings, content_type \in ContentTypes :
        LET att == [oid |-> nextId,
                    properties |->
                        SetProperty(SetProperty(SetProperty(NoProperties,
                            "name", name),
                            "contentBytes", Text(<<>>, 0, b64encode(Utf8(content)))),
                            "contentType", content_type)]
        IN
        /\ CanCall
        /\ properties' = IF "attachments" \in DOMAIN properties
                         THEN [properties EXCEPT !["attachments"] = Append(@, att)]
                         ELSE properties
        /\ return_type' = att
        /\ Called("add_file_attachment", <<name, content, content_type>>)
        /\ UNCHANGED <<pending, beforeExecute, afterExecute, executing, http,
                       results, fileWrites, downloads, raised, uploads,
                       webProperties, server>>

max_upload_chunk == 1000000 * 3

\* AttachmentCollection.resumable_upload(file_path, max_upload_chunk, return_type)
resumable_upload(file_path, chunk_size, oid, props) ==
    [file_path |-> file_path, chunk_size |-> chunk_size, return_type |-> oid,
     message_id |-> IF "id" \in DOMAIN props THEN props["id"] ELSE None]

ReadEntityQuery(binding, action) ==
    [id |-> nextId, kind |-> "ReadEntityQuery", binding |-> binding,
     name |-> "", parameterType |-> NoPayload, return_type |-> binding,
     action |-> action]

\* track_changes(self) is taken to keep the collection under the message's
\* 'attachments' property; ensure_property runs its action at once when 'id'
\* is loaded and otherwise queues a read of the message that runs it
Message_upload_attachment ==
    \E f \in Files :
        LET file_size == f.size
            att == IF file_size > max_upload_chunk
                   THEN [oid |-> nextId, properties |-> NoProperties]
                   ELSE [oid |-> nextId,
                         properties |->
                             SetProperty(SetProperty(NoProperties,
                                 "contentBytes", b64encodeFile(f)),
                                 "name", basename(f.path))]
        IN
        /\ CanCall
        /\ properties' = SetProperty(properties, "attachments",
                                     Append(attachments, att))
        /\ return_type' = att
        /\ IF file_size > max_upload_chunk
           THEN IF "id" \in DOMAIN properties
                THEN /\ uploads' = Append(uploads,
                            resumable_upload(f.path, max_upload_chunk, nextId,
                                             properties))
                     /\ UNCHANGED pending
                ELSE /\ pending' = add_query("graph",
                            ReadEntityQuery("Message",
                                <<[file_path |-> f.path, return_type |-> nextId]>>))
                     /\ UNCHANGED uploads
           ELSE UNCHANGED <<pending, uploads>>
        /\ Called("upload_attachment", <<f>>)
        /\ UNCHANGED <<beforeExecute, afterExecute, executing, http, results,
                       fileWrites, downloads, raised, webProperties, server>>

\* ----------------------------------------------------------- web operations
Web_update ==
    \E properties_to_update \in PropertyMaps :
        /\ CanCall
        /\ pending' = add_query("sp",
                         [id |-> nextId, kind |-> "UpdateEntityQuery",
                          binding |-> "Web", name |-> "",
                          parameterType |-> properties_to_update,
                          return_type |-> None])
        /\ Called("update", <<properties_to_update>>)
        /\ UNCHANGED <<beforeExecute, afterExecute, executing, http, results,
                       fileWrites, downloads, raised, resourceVars>>

Context_load ==
    /\ CanCall
    /\ pending' = add_query("sp", ReadEntityQuery("Web", <<>>))
    /\ Called("load", <<>>)
    /\ UNCHANGED <<beforeExecute, afterExecute, executing, http, results,
                   fileWrites, downloads, raised, resourceVars>>

\* ------------------------------------------------------ request dispatching
\* the request built for a query, before any handler has seen it
BuildRequest(q) ==
    [qid |-> q.id, kind |-> q.kind, name |-> q.name,
     method |-> IF q.kind = "ReadEntityQuery" THEN "GET"
                ELSE IF q.kind = "UpdateEntityQuery" THEN "PATCH" ELSE "POST",
     url |-> <<q.binding, q.name>>, payload |-> q.parameterType]

\* Message.get_content._construct_query(request)
_construct_query(request) == [request EXCEPT !.method = "GET"]

\* GroupSiteManager._construct_status_request(request, query), its first two
\* statements; reading a missing 'groupId' key raises KeyError
_construct_status_request(request, query) ==
    IF "groupId" \in DOMAIN query.parameterType
    THEN [request |-> [request EXCEPT
                          !.method = "GET",
                          !.url = @ \o <<"?groupId=", query.parameterType.groupId>>],
          error |-> None]
    ELSE [request |-> [request EXCEPT !.method = "GET"], error |-> "KeyError"]

\* beforeExecute.notify: every registered handler sees the request being
\* built; a handler unsubscribes when it has run, and an exception stops the
\* notification with the raising handler still registered
RECURSIVE NotifyBefore(_, _, _)
NotifyBefore(handlers, request, query) ==
    IF handlers = <<>>
    THEN [request |-> request, remaining |-> <<>>, error |-> None]
    ELSE IF Head(handlers).kind = "_construct_query"
    THEN NotifyBefore(Tail(handlers), _construct_query(request), query)
    ELSE LET r == _construct_status_request(request, query) IN
         IF r.error # None
         THEN [request |-> r.request, remaining |-> handlers, error |-> r.error]
         ELSE NotifyBefore(Tail(handlers), r.request, query)

\* Message.download._content_downloaded(resp): the calls made to
\* file_object.write and the exception raised, if any
_content_downloaded(h, resp, res) ==
    IF resp.status # 200
    THEN [writes |-> <<>>, error |-> "HTTPError"]
    ELSE [writes |-> <<[data |-> res[h.result], result |-> h.result]>>,
          error |-> IF res[h.result] = None THEN "TypeError" ELSE None]

\* afterExecute.notify: every registered handler sees the response, once
RECURSIVE NotifyAfter(_, _, _)
NotifyAfter(handlers, resp, res) ==
    IF handlers = <<>>
    THEN [writes |-> <<>>, remaining |-> <<>>, error |-> None]
    ELSE LET r == _content_downloaded(Head(handlers), resp, res) IN
         IF r.error # None
         THEN [writes |-> r.writes, remaining |-> Tail(handlers), error |-> r.error]
         ELSE LET rest == NotifyAfter(Tail(handlers), resp, res) IN
              [rest EXCEPT !.writes = r.writes \o @]

\* bodies the endpoint may answer a query with
Bodies(q) == IF q.return_type = "ClientResult" THEN Contents ELSE {None}

\* process_response and the query's own continuation: what a successful
\* response to query q leaves in the client objects and at the endpoint
LoadedMessage(q) == q.kind = "ReadEntityQuery" /\ q.binding = "Message"

PropertiesAfter(q) ==
    IF LoadedMessage(q) THEN SetProperty(properties, "id", MessageId) ELSE properties

\* Message.upload_attachment._message_loaded, run once 'id' is loaded
UploadsAfter(q) ==
    IF LoadedMessage(q) /\ q.action # <<>>
    THEN Append(uploads, resumable_upload(q.action[1].file_path, max_upload_chunk,
                                          q.action[1].return_type, PropertiesAfter(q)))
    ELSE uploads

\* an endpoint that acknowledges an update without storing it
ServerAfterIgnoringUpdate(q) == server

ServerAfter(q) ==
    IF q.kind = "UpdateEntityQuery" /\ q.binding = "Web"
    THEN q.parameterType @@ server
    ELSE server

WebPropertiesAfter(q) ==
    IF q.kind = "ReadEntityQuery" /\ q.binding = "Web" THEN server ELSE webProperties

\* execute_query(): start flushing the context's pending queue
execute_query ==
    \E c \in Contexts :
        /\ executing = "idle"
        /\ executing' = c
        /\ raised' = None
        /\ UNCHANGED <<pending, beforeExecute, afterExecute, http, results,
                       fileWrites, downloads, nextId, lastCall, resourceVars>>

\* one turn of execute_query's loop: the next query is taken from the queue,
\* its request built, shown to the beforeExecute handlers and sent; the
\* response is checked, stored in the query's result and shown to the
\* afterExecute handlers
ProcessQuery ==
    /\ executing # "idle"
    /\ pending[executing] # <<>>
    /\ LET c == executing
           q == Head(pending[c])
           before == NotifyBefore(beforeExecute[c], BuildRequest(q), q)
       IN
       /\ pending' = [pending EXCEPT ![c] = Tail(@)]
       /\ beforeExecute' = [beforeExecute EXCEPT ![c] = before.remaining]
       /\ IF before.error # None
          THEN /\ raised' = before.error
               /\ executing' = "idle"
               /\ UNCHANGED <<http, results, afterExecute, fileWrites,
                              properties, uploads, webProperties, server>>
          ELSE \E status \in Statuses, body \in Bodies(q) :
               LET resp == [status |-> status, content |-> body]
                   res == IF q.return_type = "ClientResult"
                          THEN [results EXCEPT ![q.id] = body]
                          ELSE results
                   after == NotifyAfter(afterExecute[c], resp, res)
               IN
               /\ http' = Append(http, before.request @@ resp)
               /\ IF status # 200
                  THEN /\ raised' = "HTTPError"
                       /\ executing' = "idle"
                       /\ UNCHANGED <<results, afterExecute, fileWrites,
                                      properties, uploads, webProperties, server>>
                  ELSE /\ results' = res
                       /\ properties' = PropertiesAfter(q)
                       /\ uploads' = UploadsAfter(q)
                       /\ server' = ServerAfter(q)
                       /\ webProperties' = WebPropertiesAfter(q)
                       /\ afterExecute' = [afterExecute EXCEPT ![c] = after.remaining]
                       /\ fileWrites' = fileWrites \o after.writes
                       /\ raised' = after.error
                       /\ executing' = IF after.error # None THEN "idle" ELSE c
    /\ UNCHANGED <<downloads, nextId, lastCall, return_type>>

\* execute_query returns when the queue is empty
Finish ==
    /\ executing # "idle"
    /\ pending[executing] = <<>>
    /\ executing' = "idle"
    /\ UNCHANGED <<pending, beforeExecute, afterExecute, http, results,
                   fileWrites, downloads, raised, nextId, lastCall, resourceVars>>

\* ----------------------------------------------------------- specifications
NoAttachment == [oid |-> 0, properties |-> NoProperties]

InitContext ==
    /\ pending = [c \in Contexts |-> <<>>]
    /\ beforeExecute = [c \in Contexts |-> <<>>]
    /\ afterExecute = [c \in Contexts |-> <<>>]
    /\ executing = "idle"
    /\ http = <<>>
    /\ results = [i \in 1..MaxCalls |-> None]
    /\ fileWrites = <<>>
    /\ downloads = {}
    /\ raised = None
    /\ nextId = 1
    /\ lastCall = [op |-> None, args |-> <<>>]
    /\ return_type = NoAttachment
    /\ uploads = <<>>
    /\ webProperties = [Title |-> "Workspace"]
    /\ server = [Title |-> "Workspace", Description |-> ""]

\* a message fetched from the endpoint, used to queue service operations
Init ==
    /\ InitContext
    /\ properties = SetProperty(NoProperties, "id", MessageId)

Next ==
    \/ Message_send
    \/ Message_reply
    \/ Message_reply_all
    \/ Message_create_reply_all
    \/ Message_move
    \/ Message_forward
    \/ Message_get_content
    \/ Message_download
    \/ GroupSiteManager_create_group_ex
    \/ GroupSiteManager_delete
    \/ GroupSiteManager_get_status
    \/ execute_query
    \/ ProcessQuery
    \/ Finish

Spec == Init /\ [][Next]_vars

\* a message that is a new draft or was fetched, with or without its
\* attachments, to which files are attached
InitAttach ==
    /\ InitContext
    /\ properties \in {NoProperties,
                       SetProperty(NoProperties, "id", MessageId),
                       SetProperty(NoProperties, "attachments", <<>>),
                       SetProperty(SetProperty(NoProperties, "id", MessageId),
                                   "attachments", <<>>)}

NextAttach ==
    \/ Message_add_file_attachment
    \/ Message_upload_attachment
    \/ execute_query
    \/ ProcessQuery
    \/ Finish

SpecAttach == InitAttach /\ [][NextAttach]_vars

\* a web that is updated and loaded
NextWeb ==
    \/ Web_update
    \/ Context_load
    \/ execute_query
    \/ ProcessQuery
    \/ Finish

SpecWeb == Init /\ [][NextWeb]_vars

\* ------------------------------------------------------------------ claims
Last(s) == s[Len(s)]

IsPrefix(s, t) == Len(s) <= Len(t) /\ SubSeq(t, 1, Len(s)) = s

\* C1: dispatch is deferred. A resource-method call exchanges nothing with
\* the endpoint and changes nothing there; it only appends to the pending
\* queues. Exchanges happen only while execute_query is running.
DeferredDispatch ==
    [][/\ executing = "idle" => (http' = http /\ server' = server)
       /\ nextId' # nextId =>
            /\ http' = http /\ server' = server /\ fileWrites' = fileWrites
            /\ \A c \in Contexts : IsPrefix(pending[c], pending'[c])]_vars

DeferredDispatchWitness ==
    /\ nextId > MaxCalls
    /\ executing = "idle"
    /\ Len(pending["graph"]) >= 1
    /\ Len(pending["sp"]) >= 1
    /\ http = <<>>

\* the methods that map to one REST operation, with the operation's name
OperationName ==
    [send |-> "send", reply |-> "reply", reply_all |-> "replyAll",
     create_reply_all |-> "createReplyAll", move |-> "move",
     forward |-> "forward", create_group_ex |-> "CreateGroupEx",
     delete |-> "Delete", get_status |-> "GetSiteStatus"]

OperationContext(op) ==
    IF op \in {"create_group_ex", "delete", "get_status"} THEN "sp" ELSE "graph"

\* the payload shape of each operation, from the call's arguments
OperationPayload(op, args) ==
    CASE op = "reply" -> [message |-> "Message", comment |-> args[1]]
      [] op = "move" -> [DestinationId |-> args[1]]
      [] op = "forward" ->
            [toRecipients |->
                 [i \in 1..Len(args[1]) |-> [emailAddress |-> [address |-> args[1][i]]]],
             comment |-> args[2]]
      [] op = "create_group_ex" ->
            [displayName |-> args[1], alias |-> args[2], isPublic |-> args[3],
             optionalParams |-> args[4]]
      [] op = "delete" -> [siteUrl |-> args[1]]
      [] op = "get_status" -> [groupId |-> args[1]]
      [] OTHER -> NoPayload

\* C2: one method call maps to one REST operation. Each call of a mapped
\* method appends exactly one query to its context's pending queue, with the
\* operation name and payload of the table above, and changes no other queue.
OneCallOneQuery ==
    [][(nextId' # nextId /\ lastCall'.op \in DOMAIN OperationName) =>
          LET op == lastCall'.op
              c == OperationContext(op)
              qry == Last(pending'[c])
          IN
          /\ pending'[c] = Append(pending[c], qry)
          /\ qry.kind = "ServiceOperationQuery"
          /\ qry.name = OperationName[op]
          /\ qry.parameterType = OperationPayload(op, lastCall'.args)
          /\ \A d \in Contexts \ {c} : pending'[d] = pending[d]]_vars

OneCallOneQueryWitness ==
    /\ lastCall.op = "forward"
    /\ Len(pending["graph"]) >= 2
    /\ Last(pending["graph"]).name = "forward"
    /\ Last(pending["graph"]).parameterType.comment = "hi"

\* exchanges of the log that updated, or read, the web successfully
OkUpdates ==
    {i \in DOMAIN http : http[i].kind = "UpdateEntityQuery" /\ http[i].status = 200}

OkReads ==
    {i \in DOMAIN http : /\ http[i].kind = "ReadEntityQuery"
                         /\ http[i].url[1] = "Web"
                         /\ http[i].status = 200}

AddedAttachmentIsAttached ==
    lastCall.op = "add_file_attachment" =>
        /\ \E i \in DOMAIN attachments : attachments[i].oid = return_type.oid
        /\ return_type.properties["name"] = lastCall.args[1]
        /\ return_type.properties["contentBytes"]
               = Text(<<>>, 0, b64encode(Utf8(lastCall.args[2])))
        /\ return_type.properties["contentType"] = lastCall.args[3]

\* the largest file the resumable upload is documented for
MaxResumableSize == 150 * 1000000

\* C5: upload_attachment uses the resumable upload exactly when the file
\* size is between 3 MB and 150 MB and attaches a smaller file inline, with
\* its base64 content and base name; a resumable upload starts only once the
\* message's id is loaded, with a chunk size of 3,000,000 bytes.
UploadChosenBySize ==
    /\ lastCall.op = "upload_attachment" =>
          LET f == lastCall.args[1]
              inline == "contentBytes" \in DOMAIN return_type.properties
          IN
          /\ ~inline => (f.size >= 3000000 /\ f.size <= MaxResumableSize)
          /\ inline =>
                /\ f.size <= 3000000
                /\ return_type.properties["contentBytes"] = b64encodeFile(f)
                /\ return_type.properties["name"] = basename(f.path)
    /\ \A i \in DOMAIN uploads :
          /\ uploads[i].message_id # None
          /\ uploads[i].chunk_size = 3000000

\* C6: download writes the message's MIME content into the file. Every
\* write to file_object carries the content of a successful response to the
\* download's own $value request; a download whose request succeeded has
\* written exactly once, and one whose request failed has written nothing.
DownloadWritesContentOnce ==
    /\ \A i \in DOMAIN fileWrites :
          \E j \in DOMAIN http :
              /\ http[j].qid = fileWrites[i].result
              /\ http[j].status = 200
              /\ fileWrites[i].data = http[j].content
    /\ \A d \in downloads :
          \A j \in DOMAIN http :
              http[j].qid = d =>
                  Cardinality({i \in DOMAIN fileWrites : fileWrites[i].result = d})
                      = IF http[j].status = 200 THEN 1 ELSE 0

\* C7: the GET override of get_content applies to its own $value request
\* and to no other. Of the message's operations, the $value requests are
\* sent with GET and every other with the method it is built with, POST.
GetOverrideOnlyOnValueRequest ==
    \A i \in DOMAIN http :
        (http[i].kind = "ServiceOperationQuery" /\ http[i].url[1] = "Message") =>
            http[i].method = IF http[i].name = "$value" THEN "GET" ELSE "POST"

====
